---- MODULE Spec2Model ----
(***************************************************************************)
(* Model of upscale_app.py: the per-image client-id store                  *)
(* (get_or_create_client_id_for_image), the step computation               *)
(* (n_steps), and the upload / poll / download / resize script.            *)
(*                                                                         *)
(* Three specifications share the variables:                               *)
(*   SpecPlan   the step computation applied to bounded dimensions         *)
(*   SpecStore  processes calling get_or_create_client_id_for_image on the *)
(*              shared mapping file, step by step (SpecSeq: one call at a  *)
(*              time)                                                      *)
(*   Spec       one run of the script body (lines 58-144)                  *)
(***************************************************************************)
EXTENDS Integers, Sequences, FiniteSets, TLC

\* ------------------------------------------------------------ bounds
\* Source / target pixel dimensions explored by SpecPlan.
MaxSrc == 4
MaxTgt == 17
\* Target dimensions explored by a run (source dimensions are 1 or MaxRunSrc).
MaxRunSrc == 4
MaxRunTgt == 5
\* Processes sharing the mapping file, and calls made in all.
NProcs == 2
MaxCalls == 3

\* ------------------------------------------------------------ program constants
API_SCALE == 4
PollBudget == 60
TARGET_DPI_VALUE == 300

\* ------------------------------------------------------------ values
\* Image names used as keys of the mapping.
Names == {"a", "b"}
\* The name of the file uploaded in a run.
RunName == "a"
\* Well-formed identifiers: what secrets.token_hex(16) can return
\* (32 lowercase hex characters), abstracted to two distinct values.
HexIds == {"h1", "h2"}
\* Stored JSON values of an entry:
\*   "X32"    a value of len 32 that is no such identifier: a string of 32
\*            characters not all lowercase hex, or an array of 32 elements
\*   "short"  a string or array whose len is not 32
\*   "num"    a JSON number / null / bool: len() raises TypeError
Absent == "absent"
Values == HexIds \cup {"X32", "short", "num"}

HasLen(v) == v # "num"
Len32(v) == v \in HexIds \cup {"X32"}
WellFormed(v) == v \in HexIds

\* Content of the mapping file: no file, text json.load rejects (empty or
\* truncated included), a JSON document that is not an object, or a JSON
\* object (map: name -> value or Absent).
NoEntries == [n \in Names |-> Absent]
Missing == [kind |-> "missing", map |-> NoEntries]
Garbage == [kind |-> "garbage", map |-> NoEntries]
NonDict == [kind |-> "nondict", map |-> NoEntries]
Dict(m) == [kind |-> "dict", map |-> m]
FileContents ==
    {Missing, Garbage, NonDict} \cup {Dict(m) : m \in [Names -> Values \cup {Absent}]}

VARIABLES
    \* --- the mapping file and the processes calling the store
    file,       \* content of upscale_client_id_map.json
    ipc,        \* per process: "idle", "loaded", "opened"
    iname,      \* per process: image_name of the call in progress
    snap,       \* per process: mapping, as loaded
    cid,        \* per process: client_id generated
    raisedFor,  \* the names a call for which raised TypeError (history)
    ncalls,     \* calls started, in all
    since,      \* per process: how many calls had returned when its call read the file
    returned,   \* the calls that returned, in order: [name, val, since] (history)
    raced,      \* a read saw a half-written file, or a write-back lost an update (history)
    \* --- the step computation
    sourceW, sourceH, targetW, targetH, n_steps,
    \* --- one run of the script
    pc, client_id, attempt, wait_idx, upscaled_url, current_path, files,
    pending, completed, error, submits, nList, listedFor, nDownload, dlFailed

storeVars == <<file, ipc, iname, snap, cid, raisedFor, ncalls, since, returned, raced>>
planVars == <<sourceW, sourceH, targetW, targetH, n_steps>>
runVars == <<pc, client_id, attempt, wait_idx, upscaled_url, current_path, files,
             pending, completed, error, submits, nList, listedFor, nDownload, dlFailed>>
vars == <<storeVars, planVars, runVars>>

Procs == 1..NProcs

\* ------------------------------------------------------------ the store
\* Lines 24-31: the mapping as loaded.
LoadMapping(f) ==
    IF f.kind \in {"missing", "garbage"} THEN Dict(NoEntries) ELSE f

\* Lookup with the length test inverted (len(...) != 32).
LookupLenInverted(m, name) ==
    IF m.kind # "dict" THEN "raise"
    ELSE IF m.map[name] = Absent THEN "miss"
    ELSE IF ~HasLen(m.map[name]) THEN "raise"
    ELSE IF ~Len32(m.map[name]) THEN "hit"
    ELSE "miss"

\* Line 33: image_name in mapping and len(mapping[image_name]) == 32.
\* A non-object document raises TypeError here or at line 37 (item
\* assignment), before anything is written; so does len() of a number.
Lookup(m, name) ==
    IF m.kind # "dict" THEN "raise"
    ELSE IF m.map[name] = Absent THEN "miss"
    ELSE IF ~HasLen(m.map[name]) THEN "raise"
    ELSE IF Len32(m.map[name]) THEN "hit"
    ELSE "miss"

\* Updated starting from an empty dict (the other entries are dropped).
UpdatedOnlyNew(m, name, id) == Dict([NoEntries EXCEPT ![name] = id])

\* Line 37: mapping[image_name] = client_id.
Updated(m, name, id) == Dict([m.map EXCEPT ![name] = id])

\* What the calls for name n have returned, in order.
ReturnedFor(n) == {returned[i].val : i \in {j \in DOMAIN returned : returned[j].name = n}}

\* Lines 21-37 of one call by process p for image_name name: load the mapping,
\* return the stored value when it is present with len 32 (line 34), raise
\* TypeError, or generate a new client_id (line 36) and go on to write.
StoreLoad(p, name) ==
    /\ ipc[p] = "idle"
    /\ ncalls < MaxCalls
    /\ ncalls' = ncalls + 1
    /\ raced' = (raced \/ \E q \in Procs \ {p} : ipc[q] = "opened")
    /\ LET m == LoadMapping(file)
           r == Lookup(m, name)
       IN  CASE r = "raise" ->
                  /\ raisedFor' = raisedFor \cup {name}
                  /\ UNCHANGED <<ipc, iname, snap, cid, since, returned>>
             [] r = "hit" ->
                  /\ returned' = Append(returned,
                                    [name |-> name, val |-> m.map[name],
                                     since |-> Len(returned)])
                  /\ UNCHANGED <<ipc, iname, snap, cid, since, raisedFor>>
             [] r = "miss" ->
                  /\ \E id \in HexIds : cid' = [cid EXCEPT ![p] = id]
                  /\ iname' = [iname EXCEPT ![p] = name]
                  /\ snap' = [snap EXCEPT ![p] = m]
                  /\ since' = [since EXCEPT ![p] = Len(returned)]
                  /\ ipc' = [ipc EXCEPT ![p] = "loaded"]
                  /\ UNCHANGED <<returned, raisedFor>>
    /\ UNCHANGED <<file, planVars, runVars>>

\* Line 38: open(mapping_path, 'w') truncates the file.
StoreOpen(p) ==
    /\ ipc[p] = "loaded"
    /\ ipc' = [ipc EXCEPT ![p] = "opened"]
    /\ raced' = (raced \/ LoadMapping(file) # snap[p]
                       \/ \E q \in Procs \ {p} : ipc[q] = "opened")
    /\ file' = Garbage
    /\ UNCHANGED <<iname, snap, cid, raisedFor, ncalls, since, returned, planVars, runVars>>

\* Lines 39-40: json.dump(mapping, f), close, return client_id (the call's
\* locals are gone). When another process has written the file since this
\* one truncated it, the two texts overlay each other from offset 0: the
\* result is this process's document or text json.load rejects.
StoreDump(p) ==
    /\ ipc[p] = "opened"
    /\ ipc' = [ipc EXCEPT ![p] = "idle"]
    /\ file' \in {Updated(snap[p], iname[p], cid[p])}
                  \cup (IF file # Garbage THEN {Garbage} ELSE {})
    /\ returned' = Append(returned, [name |-> iname[p], val |-> cid[p],
                                      since |-> since[p]])
    /\ iname' = [iname EXCEPT ![p] = RunName]
    /\ snap' = [snap EXCEPT ![p] = Dict(NoEntries)]
    /\ cid' = [cid EXCEPT ![p] = Absent]
    /\ since' = [since EXCEPT ![p] = 0]
    /\ UNCHANGED <<raisedFor, ncalls, raced, planVars, runVars>>

\* ------------------------------------------------------------ the step computation
RECURSIVE Pow(_, _)
Pow(b, k) == IF k = 0 THEN 1 ELSE b * Pow(b, k - 1)

\* Lines 78-80: scale_factor = max(width_scale, height_scale), kept as the
\* fraction num/den.
ScaleFactor(sw, sh, tw, th) ==
    IF tw * sh >= th * sw THEN [num |-> tw, den |-> sw] ELSE [num |-> th, den |-> sh]

\* math.ceil(math.log(x, base)) for x = num/den > 0: the least integer k,
\* negative when x <= 1/base, with base^k >= x.
RECURSIVE CeilLogUp(_, _, _, _)
CeilLogUp(num, den, base, k) ==
    IF Pow(base, k) * den >= num THEN k ELSE CeilLogUp(num, den, base, k + 1)

RECURSIVE CeilLogDown(_, _, _, _)
CeilLogDown(num, den, base, j) ==
    IF num * Pow(base, j + 1) <= den THEN CeilLogDown(num, den, base, j + 1) ELSE j

CeilLog(num, den, base) ==
    IF num > den THEN CeilLogUp(num, den, base, 0)
    ELSE 0 - CeilLogDown(num, den, base, 0)

\* Line 82: n_steps = math.ceil(math.log(scale_factor, API_SCALE)).
NSteps(sw, sh, tw, th) ==
    LET s == ScaleFactor(sw, sh, tw, th) IN CeilLog(s.num, s.den, API_SCALE)

\* ------------------------------------------------------------ a run: values
\* The most passes a run of these dimensions can make.
MaxPasses == CeilLog(MaxRunTgt, 1, API_SCALE)
Passes == 1..MaxPasses

\* Local paths: input_<name> (line 60), upscaled_<k>_<name> (line 111),
\* final_upscaled_<name> (line 124).
InputPath == [dir |-> "input", k |-> 0]
\* The pass index left out of the name (upscaled_<name>).
UpscaledPathNoIndex(k) == [dir |-> "upscaled", k |-> 1]
UpscaledPath(k) == [dir |-> "upscaled", k |-> k]
FinalPath == [dir |-> "final", k |-> 0]
NoPath == [dir |-> "none", k |-> 0]
Paths == {InputPath, FinalPath} \cup {UpscaledPath(k) : k \in Passes}

\* Content of a local file. kind: "none" (no file), "orig" (the uploaded
\* image), "result" (the body of a successful download of job's result),
\* "errbody" (the body of a non-success response), "final" (the resized image,
\* of w x h pixels with dpi metadata, resampled from path from).
NoFile == [kind |-> "none", job |-> 0, w |-> 0, h |-> 0, dpi |-> 0, from |-> NoPath]
OrigImage == [NoFile EXCEPT !.kind = "orig"]
ResultImage(j) == [NoFile EXCEPT !.kind = "result", !.job = j]
ErrorBody(j) == [NoFile EXCEPT !.kind = "errbody", !.job = j]
\* The size given as (height, width).
FinalImageSwapped(path, w, h, dpi) ==
    [kind |-> "final", job |-> 0, w |-> h, h |-> w, dpi |-> dpi, from |-> path]
FinalImage(path, w, h, dpi) ==
    [kind |-> "final", job |-> 0, w |-> w, h |-> h, dpi |-> dpi, from |-> path]

\* An entry of the completed list of get_uploaded_images: the job it is the
\* result of (0: a job of an earlier run of this client id) and its shape:
\*   "str"    a bare URL string          "rec"    a dict with a "url" field
\*   "nourl"  a dict without "url"       "empty"  a falsy result: "", {"url": ""}, {}
Shapes == {"str", "rec", "nourl", "empty"}
Entry(j, sh) == [job |-> j, shape |-> sh]

\* The listings a client id that was already in the store may start with;
\* a newly generated client id has no jobs.
StaleListings == {<<>>} \cup {<<Entry(0, sh)>> : sh \in Shapes}

\* upscaled_url: None, or what line 101 extracts from an entry.
NoUrl == [kind |-> "None", job |-> 0]
\* Line 101 without the dict case: upscaled_url = completed[-1].
ExtractUrlNoRecord(e) ==
    IF e.shape = "str" THEN [kind |-> "url", job |-> e.job]
    ELSE IF e.shape = "empty" THEN [kind |-> "empty", job |-> e.job]
    ELSE [kind |-> "dict", job |-> e.job]
\* Line 101: completed[-1]["url"] if it is a dict with "url", else completed[-1].
ExtractUrl(e) ==
    IF e.shape \in {"str", "rec"} THEN [kind |-> "url", job |-> e.job]
    ELSE IF e.shape = "empty" THEN [kind |-> "empty", job |-> e.job]
    ELSE [kind |-> "dict", job |-> e.job]
\* Falsy testing for the empty string only (upscaled_url == "").
FalsyEmptyOnly(u) == u.kind = "empty"

\* Line 105: not upscaled_url.
Falsy(u) == u.kind \in {"None", "empty"}

\* The mapping files a run starts from.
RunFiles == {Missing, NonDict, Dict([NoEntries EXCEPT ![RunName] = "h1"])}
RunSrcDims == {1, MaxRunSrc}
RunTgtDims == 1..MaxRunTgt

\* LoopNext with range(n_steps + 1).
LoopNextOffByOne(k, n) == IF k <= n THEN "Submit" ELSE "Resizing"

\* Line 89: for attempt in range(n_steps): the next iteration, or the code
\* after the loop.
LoopNext(k, n) == IF k < n THEN "Submit" ELSE "Resizing"

\* ------------------------------------------------------------ a run: actions
\* A client id other than the one the run obtained.
ClientArgRegenerated == CHOOSE h \in HexIds : h # client_id

\* Lines 92, 98: the client_id passed to upload_image and get_uploaded_images.
ClientArg == client_id

Fail(kind) ==
    /\ pc' = "Failed"
    /\ error' = kind

\* Lines 58-65: save the upload to input_<name>, then the whole of
\* get_or_create_client_id_for_image(uploaded_file.name), no other process
\* touching the mapping file meanwhile.
Upload ==
    /\ pc = "Upload"
    /\ files' = [files EXCEPT ![InputPath] = OrigImage]
    /\ ncalls' = ncalls + 1
    /\ LET m == LoadMapping(file)
           r == Lookup(m, RunName)
       IN  CASE r = "raise" ->
                  /\ Fail("Exception")
                  /\ UNCHANGED <<file, client_id, completed>>
             [] r = "hit" ->
                  /\ client_id' = m.map[RunName]
                  /\ completed' \in StaleListings
                  /\ pc' = "Planning"
                  /\ UNCHANGED <<file, error>>
             [] r = "miss" ->
                  /\ \E id \in HexIds :
                        /\ client_id' = id
                        /\ file' = Updated(m, RunName, id)
                  /\ completed' = <<>>
                  /\ pc' = "Planning"
                  /\ UNCHANGED error
    /\ UNCHANGED <<ipc, iname, snap, cid, raisedFor, since, returned, raced, planVars,
                   attempt, wait_idx, upscaled_url, current_path, pending,
                   submits, nList, listedFor, nDownload, dlFailed>>

\* Lines 70-88: open the image, compute n_steps from its dimensions and
\* TARGET_SIZE (lines 50-52), current_path = input_path, enter the loop.
Planning ==
    /\ pc = "Planning"
    /\ \E sw \in RunSrcDims, sh \in RunSrcDims, tw \in RunTgtDims, th \in RunTgtDims :
          /\ sourceW' = sw
          /\ sourceH' = sh
          /\ targetW' = tw
          /\ targetH' = th
          /\ n_steps' = NSteps(sw, sh, tw, th)
    /\ current_path' = InputPath
    /\ attempt' = 0
    /\ pc' = LoopNext(0, n_steps')
    /\ UNCHANGED <<storeVars, client_id, wait_idx, upscaled_url, files, pending,
                   completed, error, submits, nList, listedFor, nDownload, dlFailed>>

\* Lines 90-95: upload_image(current_path, client_id, ...) starts a remote
\* job for pass attempt+1; upscaled_url = None.
Submit ==
    /\ pc = "Submit"
    /\ pending' = pending \cup {attempt + 1}
    /\ submits' = Append(submits, [pass |-> attempt + 1, path |-> current_path,
                                   content |-> files[current_path],
                                   client |-> ClientArg, listed |-> nList])
    /\ upscaled_url' = NoUrl
    /\ wait_idx' = 0
    /\ pc' = "Poll"
    /\ UNCHANGED <<storeVars, planVars, client_id, attempt, current_path, files,
                   completed, error, nList, listedFor, nDownload, dlFailed>>

\* Lines 97-104: one iteration of the poll loop. Since the previous poll the
\* service may have finished one of the pending jobs (job j, listed last, in
\* shape sh; j = 0: none finished). A non-empty completed list ends
\* the loop with the URL of its last entry; otherwise sleep, and the loop
\* ends after PollBudget iterations.
Poll ==
    /\ pc = "Poll"
    /\ wait_idx < PollBudget
    /\ nList' = nList + 1
    /\ listedFor' = listedFor \cup {ClientArg}
    /\ \E j \in pending \cup {0}, sh \in Shapes :
          /\ j = 0 => sh = "str"
          /\ completed' = IF j = 0 THEN completed
                          ELSE Append(completed, Entry(j, sh))
          /\ pending' = pending \ {j}
    /\ IF completed' # <<>>
       THEN /\ upscaled_url' = ExtractUrl(completed'[Len(completed')])
            /\ pc' = "CheckUrl"
            /\ UNCHANGED wait_idx
       ELSE /\ wait_idx' = wait_idx + 1
            /\ pc' = IF wait_idx + 1 < PollBudget THEN "Poll" ELSE "CheckUrl"
            /\ UNCHANGED upscaled_url
    /\ UNCHANGED <<storeVars, planVars, client_id, attempt, current_path, files,
                   error, submits, nDownload, dlFailed>>

\* Lines 105-107: if not upscaled_url: st.error(...); st.stop().
CheckUrl ==
    /\ pc = "CheckUrl"
    /\ IF Falsy(upscaled_url)
       THEN Fail("Timeout")
       ELSE /\ pc' = "Download"
            /\ UNCHANGED error
    /\ UNCHANGED <<storeVars, planVars, client_id, attempt, wait_idx, upscaled_url,
                   current_path, files, pending, completed, submits, nList, listedFor,
                   nDownload, dlFailed>>

\* Lines 109-115: requests.get(upscaled_url) and the write of its body to
\* upscaled_<attempt+1>_<name>. requests.get raises for a dict and when no
\* response arrives; a response is written whatever its status (the status
\* is not looked at), and the loop goes on.
DownloadOutcomes == {"ok", "http_error", "no_response"}

Download ==
    /\ pc = "Download"
    /\ nDownload' = nDownload + 1
    /\ \E o \in DownloadOutcomes :
          IF upscaled_url.kind = "dict" \/ o = "no_response"
          THEN /\ Fail("Exception")
               /\ UNCHANGED <<files, current_path, attempt, dlFailed>>
          ELSE /\ files' = [files EXCEPT ![UpscaledPath(attempt + 1)] =
                              IF o = "ok" THEN ResultImage(upscaled_url.job)
                              ELSE ErrorBody(upscaled_url.job)]
               /\ dlFailed' = IF o = "ok" THEN dlFailed ELSE dlFailed \cup {attempt + 1}
               /\ current_path' = UpscaledPath(attempt + 1)
               /\ attempt' = attempt + 1
               /\ pc' = LoopNext(attempt + 1, n_steps)
               /\ UNCHANGED error
    /\ UNCHANGED <<storeVars, planVars, client_id, wait_idx, upscaled_url, pending,
                   completed, submits, nList, listedFor>>

\* Lines 119-126: Image.open(current_path), resize to TARGET_SIZE, save to
\* final_upscaled_<name> with dpi=TARGET_DPI. Image.open of the body of a
\* non-success response raises unless that body happens to be an image.
Resizing ==
    /\ pc = "Resizing"
    /\ \E decodes \in BOOLEAN :
          IF files[current_path].kind = "errbody" /\ ~decodes
          THEN /\ Fail("Exception")
               /\ UNCHANGED files
          ELSE /\ files' = [files EXCEPT ![FinalPath] =
                              FinalImage(current_path, targetW, targetH, TARGET_DPI_VALUE)]
               /\ pc' = "Done"
               /\ UNCHANGED error
    /\ UNCHANGED <<storeVars, planVars, client_id, attempt, wait_idx, upscaled_url,
                   current_path, pending, completed, submits, nList, listedFor, nDownload,
                   dlFailed>>

\* ------------------------------------------------------------ specifications
StoreIdle ==
    /\ ipc = [p \in Procs |-> "idle"]
    /\ iname = [p \in Procs |-> RunName]
    /\ snap = [p \in Procs |-> Dict(NoEntries)]
    /\ cid = [p \in Procs |-> Absent]
    /\ raisedFor = {}
    /\ ncalls = 0
    /\ since = [p \in Procs |-> 0]
    /\ returned = <<>>
    /\ raced = FALSE

PlanIdle ==
    /\ sourceW = 0
    /\ sourceH = 0
    /\ targetW = 0
    /\ targetH = 0
    /\ n_steps = 0

RunIdle ==
    /\ client_id = Absent
    /\ attempt = 0
    /\ wait_idx = 0
    /\ upscaled_url = NoUrl
    /\ current_path = NoPath
    /\ files = [p \in Paths |-> NoFile]
    /\ pending = {}
    /\ completed = <<>>
    /\ error = "none"
    /\ submits = <<>>
    /\ nList = 0
    /\ listedFor = {}
    /\ nDownload = 0
    /\ dlFailed = {}

\* One run of the script with a file uploaded.
Init ==
    /\ file \in RunFiles
    /\ StoreIdle
    /\ PlanIdle
    /\ RunIdle
    /\ pc = "Upload"

Next ==
    \/ Upload
    \/ Planning
    \/ Submit
    \/ Poll
    \/ CheckUrl
    \/ Download
    \/ Resizing

Spec == Init /\ [][Next]_vars

\* Processes calling the store on any content of the mapping file.
StoreInit ==
    /\ file \in FileContents
    /\ StoreIdle
    /\ PlanIdle
    /\ RunIdle
    /\ pc = "Off"

StoreNext ==
    \E p \in Procs :
        \/ \E name \in Names : StoreLoad(p, name)
        \/ StoreOpen(p)
        \/ StoreDump(p)

SpecStore == StoreInit /\ [][StoreNext]_vars

\* The same calls made one after the other: a call starts when no call is
\* in progress.
SeqNext ==
    \E p \in Procs :
        \/ \E name \in Names :
              /\ \A q \in Procs : ipc[q] = "idle"
              /\ StoreLoad(p, name)
        \/ StoreOpen(p)
        \/ StoreDump(p)

SpecSeq == StoreInit /\ [][SeqNext]_vars

\* The step computation on its own.
PlanInit ==
    /\ file = Missing
    /\ StoreIdle
    /\ RunIdle
    /\ pc = "Plan"
    /\ sourceW \in 1..MaxSrc
    /\ sourceH \in 1..MaxSrc
    /\ targetW \in 1..MaxTgt
    /\ targetH \in 1..MaxTgt
    /\ n_steps = 0

PlanStep ==
    /\ pc = "Plan"
    /\ n_steps' = NSteps(sourceW, sourceH, targetW, targetH)
    /\ pc' = "Planned"
    /\ UNCHANGED <<storeVars, sourceW, sourceH, targetW, targetH, client_id,
                   attempt, wait_idx, upscaled_url, current_path, files, pending,
                   completed, error, submits, nList, listedFor, nDownload, dlFailed>>

PlanNext == PlanStep

SpecPlan == PlanInit /\ [][PlanNext]_vars

\* ------------------------------------------------------------ claims
Planned == sourceW > 0

\* The least k >= 0 with API_SCALE^k >= max(tw/sw, th/sh).
MinSteps(sw, sh, tw, th) ==
    CHOOSE k \in 0..MaxTgt :
        /\ Pow(API_SCALE, k) * sw >= tw
        /\ Pow(API_SCALE, k) * sh >= th
        /\ \A j \in 0..(k - 1) :
              Pow(API_SCALE, j) * sw < tw \/ Pow(API_SCALE, j) * sh < th

\* C1 (as claimed): the computed n_steps is the least k >= 0 such that
\* API_SCALE^k >= max(targetW/sourceW, targetH/sourceH).
C1_StepsAreMinimal ==
    pc = "Planned" => n_steps = MinSteps(sourceW, sourceH, targetW, targetH)

\* What does hold of n_steps: it is that least k unless the scale factor is
\* at most 1/API_SCALE, where it is negative.
PlanMinimalAboveQuarter ==
    pc = "Planned" =>
        IF targetW * API_SCALE > sourceW \/ targetH * API_SCALE > sourceH
        THEN n_steps = MinSteps(sourceW, sourceH, targetW, targetH)
        ELSE n_steps < 0

\* C2: when all PollBudget polls of a pass returned an empty completed list,
\* the run goes to Failed with the timeout error and nowhere else; no
\* download request is made for that pass, no later pass is submitted and no
\* final file is written.
C2_TimeoutEndsRun ==
    /\ [](wait_idx = PollBudget =>
            /\ pc \in {"CheckUrl", "Failed"}
            /\ pc = "Failed" => error = "Timeout"
            /\ upscaled_url = NoUrl
            /\ nDownload = attempt
            /\ Len(submits) = attempt + 1
            /\ files[UpscaledPath(attempt + 1)] = NoFile
            /\ files[FinalPath] = NoFile)
    /\ [][(pc = "CheckUrl" /\ wait_idx = PollBudget) =>
            (pc' = "Failed" /\ error' = "Timeout")]_vars
    /\ [][pc # "Failed"]_vars

C2_Witness ==
    /\ pc = "Failed"
    /\ error = "Timeout"
    /\ wait_idx = PollBudget
    /\ nList = PollBudget
    /\ n_steps > 1

\* C3 (as claimed): Resizing and the final file are reached only after each of
\* the n_steps passes succeeded, and a run in which a pass failed (timeout or
\* non-success download) is in Failed with no final file.
C3_ResizeOnlyAfterSuccess ==
    /\ (pc \in {"Resizing", "Done"} \/ files[FinalPath] # NoFile) =>
            \A k \in 1..n_steps : files[UpscaledPath(k)].kind = "result"
    /\ dlFailed # {} => (pc = "Failed" /\ files[FinalPath] = NoFile)

\* C4 (as claimed): a pass whose download got a non-success response fails:
\* nothing is written from that response, no further pass is submitted and
\* Resizing is not reached.
C4_DownloadFailureFailsPass ==
    \A k \in dlFailed :
        /\ pc = "Failed"
        /\ files[UpscaledPath(k)] = NoFile
        /\ Len(submits) = k

\* C5: when targetW <= sourceW and targetH <= sourceH the run makes no
\* submission and no listing call, goes from planning straight to Resizing,
\* and its final file is the original input resampled to the target size.
ZeroStepRun == Planned /\ targetW <= sourceW /\ targetH <= sourceH

C5_ZeroStepRun ==
    ZeroStepRun =>
        /\ submits = <<>>
        /\ nList = 0
        /\ nDownload = 0
        /\ pending = {}
        /\ pc \in {"Resizing", "Done"}
        /\ current_path = InputPath
        /\ files[InputPath] = OrigImage
        /\ pc = "Done" =>
              files[FinalPath] = FinalImage(InputPath, targetW, targetH, TARGET_DPI_VALUE)

C5_Witness ==
    /\ ZeroStepRun
    /\ pc = "Done"
    /\ files[FinalPath].kind = "final"

\* C6 (as claimed): each pass is submitted once; a run in Done made exactly
\* n_steps submissions and n_steps downloads; a run in Failed made at most
\* n_steps submissions.
C6_PassCounts ==
    /\ \A i, j \in DOMAIN submits : submits[i].pass = submits[j].pass => i = j
    /\ pc = "Done" => (Len(submits) = n_steps /\ nDownload = n_steps)
    /\ pc = "Failed" => Len(submits) <= n_steps

\* What does hold: the same with the number of passes run, max(0, n_steps).
PassCountsFloored ==
    LET n == IF n_steps < 0 THEN 0 ELSE n_steps
    IN  /\ \A i, j \in DOMAIN submits : submits[i].pass = submits[j].pass => i = j
        /\ pc = "Done" => (Len(submits) = n /\ nDownload = n)
        /\ pc = "Failed" => Len(submits) <= n

\* C7 (as claimed): a pass is submitted only when the job of the pass before
\* has completed: at most one remote job of the run is pending at any time.
C7_OneJobInFlight == Cardinality(pending) <= 1

\* C8 (as claimed): from any content of the mapping file, calls made one
\* after the other each return a client id, the same one for the same name.
C8_SequentialCallsAgree ==
    /\ raisedFor = {}
    /\ \A n \in Names : Cardinality(ReturnedFor(n)) <= 1

\* What does hold of calls made one after the other: those that return
\* agree.
SequentialReturnsAgree ==
    \A n \in Names : Cardinality(ReturnedFor(n)) <= 1

\* C9 (as claimed): every value a call returns is a well-formed identifier
\* (32 lowercase hex characters).
C9_ReturnedWellFormed ==
    \A i \in DOMAIN returned : WellFormed(returned[i].val)

\* Call j read the file after call i had returned.
Later(i, j) == returned[j].since >= i

\* C10 (as claimed): under any interleaving of the calls' read and write
\* steps, a call for a name made after a call for it has returned returns
\* the same client id.
C10_StableUnderInterleaving ==
    \A i, j \in DOMAIN returned :
        (returned[i].name = returned[j].name /\ Later(i, j)) =>
            returned[i].val = returned[j].val

\* C10 (amended): the same, in the interleavings where no call reads the
\* file while another has truncated and not yet rewritten it, and no call
\* starts writing back after the file changed since it read it.
C10_StableWithoutRace ==
    ~raced =>
        \A i, j \in DOMAIN returned :
            (returned[i].name = returned[j].name /\ Later(i, j)) =>
                returned[i].val = returned[j].val

C10_Witness ==
    /\ ~raced
    /\ Len(returned) >= 2
    /\ returned[1].name = returned[2].name
    /\ WellFormed(returned[1].val)
    /\ file.kind = "dict"
    /\ Later(1, 2)
    /\ \E q \in Procs : ipc[q] = "loaded" /\ iname[q] # returned[1].name

\* C11 (as claimed): no call raises because of the content of the mapping
\* file: a missing, unparsable or non-mapping document is treated as an empty
\* mapping, and once a call is over the file holds a mapping.
C11_StoreRobust ==
    /\ raisedFor = {}
    /\ (ncalls > 0 /\ \A p \in Procs : ipc[p] = "idle") => file.kind = "dict"

\* What does hold: a call raises only on a JSON document that is not an
\* object, or on an entry whose value has no len().
RaisesOnlyOnNonMapping ==
    (raisedFor # {} /\ \A p \in Procs : ipc[p] = "idle") =>
        \/ file.kind = "nondict"
        \/ file.kind = "dict" /\ \E n \in raisedFor : file.map[n] = "num"

Malformed(u) == u.kind \in {"empty", "dict"}

C13_ErrorKinds ==
    /\ error = "Timeout" => (wait_idx = PollBudget /\ upscaled_url = NoUrl)
    /\ (Malformed(upscaled_url) /\ pc \notin {"CheckUrl", "Download"}) =>
            (pc = "Failed" /\ error # "Timeout")

\* What does hold: a malformed entry never leads to a download being
\* written; a dict without url fails in requests.get.
MalformedNeverSucceeds ==
    (Malformed(upscaled_url) /\ pc \notin {"CheckUrl", "Download"}) =>
        /\ pc = "Failed"
        /\ files[UpscaledPath(attempt + 1)] = NoFile
        /\ upscaled_url.kind = "dict" => error = "Exception"

\* C14 (as claimed): the n_steps of a run is never negative, and is 0
\* whenever max(targetW/sourceW, targetH/sourceH) <= 1.
C14_StepsNotNegative ==
    Planned =>
        /\ n_steps >= 0
        /\ (targetW <= sourceW /\ targetH <= sourceH) => n_steps = 0

\* C15: pass 1 submits the input file; pass k+1 submits the file the
\* download of pass k wrote; the passes' outputs are at distinct paths, none
\* of them the input path.
WrittenOutputs == {p \in Paths : p.dir = "upscaled" /\ files[p] # NoFile}

C15_PassChaining ==
    /\ \A i \in DOMAIN submits :
          /\ submits[i].pass = i
          /\ i = 1 => (submits[i].path = InputPath /\ submits[i].content = OrigImage)
          /\ i > 1 =>
                /\ submits[i].path = UpscaledPath(i - 1)
                /\ submits[i].content = files[UpscaledPath(i - 1)]
                /\ submits[i].content.kind \in {"result", "errbody"}
    /\ Cardinality(WrittenOutputs) = attempt
    /\ \A k \in 1..attempt : files[UpscaledPath(k)] # NoFile
    /\ \A k \in Passes : UpscaledPath(k) # InputPath /\ UpscaledPath(k) # FinalPath
    /\ pc # "Upload" => files[InputPath] = OrigImage

C15_Witness ==
    /\ Len(submits) >= 2
    /\ submits[2].path = UpscaledPath(1)
    /\ submits[2].content.kind = "result"
    /\ pc = "Done"

\* C16 (as claimed): the result URL a pass accepts, and the file it
\* downloads, is the result of the job that pass submitted.
C16_ResultOfOwnJob ==
    /\ (upscaled_url # NoUrl /\ pc \in {"CheckUrl", "Download"}) =>
            upscaled_url.job = attempt + 1
    /\ \A k \in Passes : files[UpscaledPath(k)] # NoFile => files[UpscaledPath(k)].job = k

\* The listing calls made in the current pass.
PollsInPass == IF submits = <<>> THEN 0 ELSE nList - submits[Len(submits)].listed

\* C17: the first poll of a pass that returns a non-empty completed list
\* ends the polling of that pass; the URL is taken from the last element: its
\* url field when it is a dict with one, the element itself otherwise.
C17_ResultSelection ==
    /\ (pc \in {"CheckUrl", "Download"} /\ wait_idx < PollBudget) =>
          /\ completed # <<>>
          /\ PollsInPass = wait_idx + 1
          /\ LET e == completed[Len(completed)]
             IN  /\ upscaled_url.job = e.job
                 /\ e.shape \in {"str", "rec"} => upscaled_url.kind = "url"
                 /\ e.shape = "nourl" => upscaled_url.kind = "dict"
                 /\ e.shape = "empty" => upscaled_url.kind = "empty"
    /\ pc = "Poll" =>
          /\ PollsInPass = wait_idx
          /\ wait_idx > 0 => completed = <<>>

C17_Witness ==
    /\ pc = "Download"
    /\ Len(completed) >= 2
    /\ completed[Len(completed)].shape = "rec"
    /\ completed[1].shape = "str"
    /\ nList > 2

\* C18 (as claimed, its bounds): a pass makes at most PollBudget listing
\* calls and a run at most PollBudget * n_steps.
C18_BoundedPolling ==
    /\ PollsInPass <= PollBudget
    /\ nList <= PollBudget * n_steps

\* What does hold: the same bounds with the number of passes floored at 0,
\* and, when every step that can be taken is taken, a run ends in Done or
\* Failed and takes no step from there.
BoundedPollingFloored ==
    /\ PollsInPass <= PollBudget
    /\ nList <= PollBudget * (IF n_steps < 0 THEN 0 ELSE n_steps)

FairSpec == Spec /\ WF_vars(Next)
Terminates == <>(pc \in {"Done", "Failed"})
NoStepAfterEnd == [][pc \notin {"Done", "Failed"}]_vars

\* C19: the store is called once in a run, before the first submission;
\* every upload_image and get_uploaded_images call carries the client id it
\* returned; the mapping file is not written after that call.
C19_SingleIdentity ==
    /\ [](/\ ncalls = (IF pc = "Upload" THEN 0 ELSE 1)
          /\ \A i \in DOMAIN submits : submits[i].client = client_id
          /\ listedFor \subseteq {client_id}
          /\ submits # <<>> => client_id # Absent)
    /\ [][pc # "Upload" =>
            (file' = file /\ client_id' = client_id /\ ncalls' = ncalls)]_vars

C19_Witness ==
    /\ pc = "Done"
    /\ Len(submits) >= 2
    /\ listedFor = {client_id}
    /\ file = Dict([NoEntries EXCEPT ![RunName] = client_id])

\* C20: a call that finds a stored value of len 32 does not write the file;
\* a call that creates an entry writes the mapping it read with only the
\* entry of its name changed.
C20_StoreFrame ==
    [][/\ (Len(returned') > Len(returned) /\ \A p \in Procs : ipc[p] = "idle") =>
              file' = file
       /\ \A p \in Procs :
              /\ (ipc[p] = "idle" /\ ipc'[p] = "loaded") =>
                    (file' = file /\ snap'[p] = LoadMapping(file))
              /\ (ipc[p] = "opened" /\ ipc'[p] = "idle") =>
                    /\ file'.kind = "dict"
                    /\ file'.map[iname[p]] = cid[p]
                    /\ \A n \in Names \ {iname[p]} : file'.map[n] = snap[p].map[n]
      ]_vars

C20_Witness ==
    /\ \A p \in Procs : ipc[p] = "idle"
    /\ ncalls = 2
    /\ Len(returned) = 2
    /\ returned[1].name = "b"
    /\ returned[2].name = "b"
    /\ file.kind = "dict"
    /\ file.map["a"] = "X32"
    /\ file.map["b"] = returned[1].val
====
